---- MODULE Spec2Model ----
(***************************************************************************)
(* A model of go-dns-caching-resolver: the Resolver registry (resolver.go), *)
(* the per-host refresh task (host.go), the address set (ips.go) and the    *)
(* nameserver client (dns client: lookupHost, dnsLookupHost).               *)
(*                                                                          *)
(* The specifications share the variables:                                  *)
(*   Spec        the registry: callers, host tasks, the eviction loop       *)
(*   ClockSpec   the registry under an advancing clock, with the timers     *)
(*   AddSpec     the registry with the history of explicit registrations    *)
(*   GateSpec    the readiness gate: reads and host tasks, with fairness    *)
(*   ReadSpec    one entry with addresses: its refreshes and its reads      *)
(*   LookupSpec  the nameserver client: concurrent lookupHost / reloadIPs   *)
(*   DualSpec    one dnsLookupHost call: the A and AAAA goroutines          *)
(*   IpsSpec     one ips: round-robin reads and replacements of the list    *)
(*   DumpSpec    Resolver.mu: DumpPrefix among the calls that take Lock()   *)
(***************************************************************************)
EXTENDS Integers, Sequences, FiniteSets, TLC

\* ------------------------------------------------------------------------
\* Program constants
\* ------------------------------------------------------------------------

\* host.go:14  oldHostDuration = 30 * time.Minute, in seconds of Unix time
oldHostDuration == 30 * 60

\* host.go:15
retryIntervalSec == 10

\* dns client:17-19
defaultTtl == 60

\* a uint32 (ttl4, ttl6, ttl and the TTL of a record in dnsLookupHost) is
\* written as its two 16-bit halves, hi * 65536 + lo: the integers of the
\* model checker end at 2^31 - 1. U32(n) is the uint32 of a number below 2^31
U32(n) == [hi |-> n \div 65536, lo |-> n % 65536]

\* a < b on two uint32
Less(a, b) == a.hi < b.hi \/ (a.hi = b.hi /\ a.lo < b.lo)

\* math.MaxUint32 = 4294967295 = 65535 * 65536 + 65535, the initial value of
\* ttl4 and ttl6 ("no records")
MaxUint32 == [hi |-> 65535, lo |-> 65535]

\* ------------------------------------------------------------------------
\* Bounds
\* ------------------------------------------------------------------------

\* how many host entries newHost may create in one behaviour
MaxEntries == 2

\* the wall clock stops advancing after this many seconds since the epoch
MaxClock == 3800

\* how many records the answer to one sub-query of a dual query holds
MaxRecs == 2

\* the round-robin reads of one ips stop when its cursor has come this far
MaxIpIdx == 5

\* how many results of consecutive round-robin reads are kept for comparison
MaxLog == 4

\* ------------------------------------------------------------------------
\* Input sets
\* ------------------------------------------------------------------------

\* the hostnames the callers of the Resolver's API ask for
HostNames == {"a"}

\* the concurrent callers of the Resolver's API
Callers == {1, 2}

\* the wall clock at New(): at the epoch (a device without a set clock) or later
InitClocks == {0, 1800}

\* amounts by which the wall clock advances between two steps
ClockSteps == {2000}

\* what lookupHost returns to the refreshes of Spec, whose hostnames have no
\* address records: an error, or empty lists with the default ttl (LookupSpec
\* runs lookupHost itself, with addresses)
RegLookupResults ==
    { [ip4 |-> <<>>, ip6 |-> <<>>, ttl |-> defaultTtl, err |-> TRUE],
      [ip4 |-> <<>>, ip6 |-> <<>>, ttl |-> defaultTtl, err |-> FALSE] }

VARIABLES
    \* ---- Resolver (resolver.go) ----
    hosts,        \* Resolver.hosts: hostname -> entry id (a partial function)
    stopCh,       \* Resolver.stopCh is closed
    heap,         \* every *host ever made by newHost, by id (1..Len(heap))
    callers,      \* the API calls in progress, one per caller
    sweepPc,      \* position of oldHostsDeleteLoop
    hostsToDel,   \* oldHostsDeleteLoop's hostsToDel
    clock,        \* time.Now().Unix()
    addedNames,   \* history: the hostnames an AddHost has returned for and no
                  \* DelHost, eviction or Stop has removed since
    \* ---- dnsClient (lookupHost) ----
    nameServers,  \* dnsClient.nameServers
    nsCounter,    \* dnsClient.nsCounter
    srvOk,        \* environment: which nameserver answers the dual query
    lookups,      \* the lookupHost / reloadIPs calls in progress
    lastOk,       \* history: where the last lookup succeeded (see NoLastOk)
    \* ---- one dnsLookupHost call ----
    dual,         \* the state of the call and of its two goroutines
    \* ---- one ips (ips.go) and its readers ----
    ipsRun,       \* the ips, the calls reading it, what they returned
    \* ---- Resolver.mu and the calls that take it (DumpPrefix and writers) ----
    dmp           \* the lock, its holders and waiters

regVars == <<hosts, stopCh, heap, callers, sweepPc, hostsToDel, clock, addedNames>>
cliVars == <<nameServers, nsCounter, srvOk, lookups, lastOk>>
vars == <<hosts, stopCh, heap, callers, sweepPc, hostsToDel, clock, addedNames,
          nameServers, nsCounter, srvOk, lookups, lastOk, dual, ipsRun, dmp>>

\* ------------------------------------------------------------------------
\* ips.go
\* ------------------------------------------------------------------------

\* newIps: an empty list, the cursor at 0
newIps == [ipList |-> <<>>, ipIdx |-> 0]

\* ips.setIpList: replaces the list, keeps the cursor
setIpList(i, ipList) == [i EXCEPT !.ipList = ipList]

\* ips.getList
getList(i) == i.ipList

\* the net.IP result "nil"
NilIP == "nil"

\* getNextIPRead without the modulo of line 51: the cursor itself is the
\* index, and the read outside the list yields no address
getNextIPReadNoModulo(i) ==
    IF Len(i.ipList) = 0
    THEN <<NilIP, 0>>
    ELSE <<IF i.ipIdx < Len(i.ipList) THEN i.ipList[i.ipIdx + 1] ELSE NilIP, i.ipIdx>>

\* ips.getNextIPWithIndex, the part under the read lock: <<ip, idx>>
getNextIPRead(i) ==
    IF Len(i.ipList) = 0
    THEN <<NilIP, 0>>
    ELSE <<i.ipList[(i.ipIdx % Len(i.ipList)) + 1], i.ipIdx % Len(i.ipList)>>

\* advance with the atomic add of line 55 left out: the cursor stays
advanceNot(i) == i

\* line 55: atomic.AddUint64(&i.ipIdx, 1)
advance(i) == [i EXCEPT !.ipIdx = @ + 1]

\* ------------------------------------------------------------------------
\* host.go
\* ------------------------------------------------------------------------

\* newHost: the entry and its freshly started reloadIPsLoop goroutine. pc is
\* where the goroutine stands: "reload" (in reloadIPs, at lookupHost), "set6"
\* (ip4 stored, before line 103), "done" (before ready.Done(), line 79),
\* "timer" (before time.After, lines 81 / 89), "select" or "exit"; new6 and
\* ttl are its locals ip6 and ttl, ttlAt is when the timer fires.
\* removedBy and preStop are history fields: who took the entry out of
\* Resolver.hosts ("none", "DelHost", "sweep" or "Stop"); the entry was made
\* before Stop() was called.
newHost(hName, eaFlag, now, beforeStop) ==
    [hostName |-> hName, eaFlag |-> eaFlag, ip4 |-> newIps, ip6 |-> newIps,
     lastTime |-> now, ready |-> FALSE, stopCh |-> FALSE,
     pc |-> "reload", new6 |-> <<>>, ttl |-> 0, ttlAt |-> 0,
     removedBy |-> "none", preStop |-> beforeStop]

\* host.isOld: lastTime < time.Now().Unix() - time.Now().Add(-oldHostDuration).Unix()
isOld(h, now) == h.lastTime < now - (now - oldHostDuration)

\* host.isExplicitlyAdded
isExplicitlyAdded(h) == h.eaFlag

\* host.stop: close(h.stopCh)
stop(h) == [h EXCEPT !.stopCh = TRUE]

\* host.updLastTime
updLastTime(h, now) == [h EXCEPT !.lastTime = now]

\* host.reloadIPsLoop: where the goroutine goes on when reloadIPs returns,
\* line 79 after the first call (line 78), line 89 after the later ones
returned(h) == IF h.ready THEN "timer" ELSE "done"

\* host.reloadIPs: the ttl it returns
reloadIPsTtl(res) == IF res.err THEN retryIntervalSec ELSE res.ttl

\* host.reloadIPs, lines 96-102, on what lookupHost returned: on an error it
\* returns, otherwise it stores ip4
reloadIPsSet4(h, res) ==
    IF res.err
    THEN [h EXCEPT !.ttl = reloadIPsTtl(res), !.pc = returned(h)]
    ELSE [h EXCEPT !.ip4 = setIpList(h.ip4, res.ip4), !.new6 = res.ip6,
                   !.ttl = reloadIPsTtl(res), !.pc = "set6"]

\* host.reloadIPs, lines 103-105: it stores ip6 and returns the ttl
reloadIPsSet6(h) ==
    [h EXCEPT !.ip6 = setIpList(h.ip6, h.new6), !.new6 = <<>>, !.pc = returned(h)]


\* ------------------------------------------------------------------------
\* resolver.go: the registry
\* ------------------------------------------------------------------------

\* "no entry": the nil *host
NoHost == 0

\* an API call: pc is where it stands, h the entry it holds, ip and idx what
\* getNextIPWithIndex has read for it, l4 the v4 list getIPs has read for it;
\* afterStop is a history field: the call started after Stop() returned
IdleCaller ==
    [pc |-> "idle", hostName |-> "a", fam |-> 4, h |-> NoHost, ip |-> NilIP, idx |-> 0,
     l4 |-> <<>>, afterStop |-> FALSE]

\* the state left by New(): an empty map, the eviction loop started
RegInit ==
    /\ hosts = [n \in {} |-> NoHost]
    /\ stopCh = FALSE
    /\ heap = <<>>
    /\ callers = [c \in Callers |-> IdleCaller]
    /\ sweepPc = "select"
    /\ hostsToDel = {}
    /\ clock \in InitClocks
    /\ addedNames = {}

\* the registry at rest, for the specifications that do not run it
RegIdle ==
    /\ hosts = [n \in {} |-> NoHost]
    /\ stopCh = FALSE
    /\ heap = <<>>
    /\ callers = [c \in Callers |-> IdleCaller]
    /\ sweepPc = "select"
    /\ hostsToDel = {}
    /\ clock = 0
    /\ addedNames = {}

\* r.hosts[hostName] = newHost(...): the map and the heap afterwards
WithNewHost(hName, eaFlag) ==
    /\ Len(heap) < MaxEntries
    /\ heap' = Append(heap, newHost(hName, eaFlag, clock, ~stopCh))
    /\ hosts' = [n \in DOMAIN hosts \cup {hName} |->
                    IF n = hName THEN Len(heap) + 1 ELSE hosts[n]]

\* Resolver.AddHost, lines 57-63: the check under the read lock
AddHost(c, hName) ==
    /\ callers[c].pc = "idle"
    /\ callers' = [callers EXCEPT ![c] =
            IF hName \in DOMAIN hosts
            THEN IdleCaller
            ELSE [IdleCaller EXCEPT !.pc = "add_lock", !.hostName = hName,
                                    !.afterStop = stopCh]]
    /\ UNCHANGED <<hosts, stopCh, heap, sweepPc, hostsToDel, clock, cliVars, dual, ipsRun, dmp>>

\* AddHostLocked without the second check of line 67: creates the entry
\* whatever the map holds by now
AddHostLockedNoRecheck(c) ==
    /\ callers[c].pc = "add_lock"
    /\ WithNewHost(callers[c].hostName, TRUE)
    /\ callers' = [callers EXCEPT ![c] = IdleCaller]
    /\ UNCHANGED <<stopCh, sweepPc, hostsToDel, clock, cliVars, dual, ipsRun, dmp>>

\* Resolver.AddHost, lines 65-69: the second check and the creation under the
\* write lock
AddHostLocked(c) ==
    /\ callers[c].pc = "add_lock"
    /\ IF callers[c].hostName \notin DOMAIN hosts
       THEN WithNewHost(callers[c].hostName, TRUE)
       ELSE UNCHANGED <<hosts, heap>>
    /\ callers' = [callers EXCEPT ![c] = IdleCaller]
    /\ UNCHANGED <<stopCh, sweepPc, hostsToDel, clock, cliVars, dual, ipsRun, dmp>>

\* Resolver.delHosts: deletes the names from the map (and nothing else); by
\* names the caller for the entries' history field
delHosts(names, by) ==
    /\ hosts' = [n \in DOMAIN hosts \ names |-> hosts[n]]
    /\ heap' = [id \in DOMAIN heap |->
                  IF \E n \in names \cap DOMAIN hosts : hosts[n] = id
                  THEN [heap[id] EXCEPT !.removedBy = by]
                  ELSE heap[id]]

\* Resolver.DelHost
DelHost(c, hName) ==
    /\ callers[c].pc = "idle"
    /\ delHosts({hName}, "DelHost")
    /\ callers' = [callers EXCEPT ![c] = IdleCaller]
    /\ UNCHANGED <<stopCh, sweepPc, hostsToDel, clock, cliVars, dual, ipsRun, dmp>>

\* Resolver.Stop: close(r.stopCh); a second close would panic
Stop ==
    /\ ~stopCh
    /\ stopCh' = TRUE
    /\ UNCHANGED <<hosts, heap, callers, sweepPc, hostsToDel, clock, cliVars, dual, ipsRun, dmp>>

\* Resolver.GetNextIPWithIdx (fam = 4) and GetNextIP6WithIdx (fam = 6),
\* lines 90-97 / 118-125: the lookup under the read lock
GetNextIPWithIdx(c, hName, fam) ==
    /\ callers[c].pc = "idle"
    /\ callers' = [callers EXCEPT ![c] =
            [IdleCaller EXCEPT
                !.pc = IF hName \in DOMAIN hosts THEN "get_read" ELSE "get_lock",
                !.hostName = hName, !.fam = fam,
                !.h = IF hName \in DOMAIN hosts THEN hosts[hName] ELSE NoHost,
                !.afterStop = stopCh]]
    /\ UNCHANGED <<hosts, stopCh, heap, sweepPc, hostsToDel, clock, addedNames, cliVars, dual, ipsRun, dmp>>

\* lines 99-104 / 127-132: the double-checked creation under the write lock
GetNextIPLocked(c) ==
    /\ callers[c].pc = "get_lock"
    /\ IF callers[c].hostName \notin DOMAIN hosts
       THEN WithNewHost(callers[c].hostName, FALSE)
       ELSE UNCHANGED <<hosts, heap>>
    /\ callers' = [callers EXCEPT ![c].pc = "get_read",
                                  ![c].h = hosts'[callers[c].hostName]]
    /\ UNCHANGED <<stopCh, sweepPc, hostsToDel, clock, addedNames, cliVars, dual, ipsRun, dmp>>

\* the ips of the family a call reads: h.ip4 (getNextIP4WithIndex) or h.ip6
\* (getNextIP6WithIndex)
ipsOf(h, fam) == IF fam = 4 THEN h.ip4 ELSE h.ip6

\* GetNextIPRead without the ready.Wait() of host.go:58 / 65
GetNextIPReadNoWait(c) ==
    LET i == ipsOf(heap[callers[c].h], callers[c].fam) IN
    /\ callers[c].pc = "get_read"
    /\ callers' = [callers EXCEPT ![c].pc = IF Len(getList(i)) = 0 THEN "get_upd" ELSE "get_add",
                                  ![c].ip = getNextIPRead(i)[1],
                                  ![c].idx = getNextIPRead(i)[2]]
    /\ UNCHANGED <<hosts, stopCh, heap, sweepPc, hostsToDel, clock, addedNames, cliVars, dual, ipsRun, dmp>>

\* lines 95-96, 106-107 / 123-124, 134-135, host.go:58 / 65 and ips.go:45-53:
\* ready.Wait() returns, the address and its index are read under the read
\* lock of the ips; an empty list makes the call return at line 48
GetNextIPRead(c) ==
    LET i == ipsOf(heap[callers[c].h], callers[c].fam) IN
    /\ callers[c].pc = "get_read"
    /\ heap[callers[c].h].ready
    /\ callers' = [callers EXCEPT ![c].pc = IF Len(getList(i)) = 0 THEN "get_upd" ELSE "get_add",
                                  ![c].ip = getNextIPRead(i)[1],
                                  ![c].idx = getNextIPRead(i)[2]]
    /\ UNCHANGED <<hosts, stopCh, heap, sweepPc, hostsToDel, clock, addedNames, cliVars, dual, ipsRun, dmp>>

\* ips.go:55: atomic.AddUint64(&i.ipIdx, 1), after the read lock is released
GetNextIPAdd(c) ==
    LET id == callers[c].h IN
    /\ callers[c].pc = "get_add"
    /\ heap' = [heap EXCEPT ![id] =
            IF callers[c].fam = 4
            THEN [@ EXCEPT !.ip4 = advance(@)]
            ELSE [@ EXCEPT !.ip6 = advance(@)]]
    /\ callers' = [callers EXCEPT ![c].pc = "get_upd"]
    /\ UNCHANGED <<hosts, stopCh, sweepPc, hostsToDel, clock, addedNames, cliVars, dual, ipsRun, dmp>>

\* host.go:59 / 66: the deferred updLastTime, then the call returns
GetNextIPUpd(c) ==
    LET id == callers[c].h IN
    /\ callers[c].pc = "get_upd"
    /\ heap' = [heap EXCEPT ![id] = updLastTime(@, clock)]
    /\ callers' = [callers EXCEPT ![c] = IdleCaller]
    /\ UNCHANGED <<hosts, stopCh, sweepPc, hostsToDel, clock, addedNames, cliVars, dual, ipsRun, dmp>>

\* Resolver.GetIPs, lines 140-146: the lookup under the read lock; nil, nil
\* for an unknown name
GetIPs(c, hName) ==
    /\ callers[c].pc = "idle"
    /\ callers' = [callers EXCEPT ![c] =
            IF hName \in DOMAIN hosts
            THEN [IdleCaller EXCEPT !.pc = "ips_read", !.hostName = hName,
                                    !.h = hosts[hName], !.afterStop = stopCh]
            ELSE IdleCaller]
    /\ UNCHANGED <<hosts, stopCh, heap, sweepPc, hostsToDel, clock, addedNames, cliVars, dual, ipsRun, dmp>>

\* Resolver.GetIPs, line 148, host.go:72-73: ready.Wait() returns, the v4
\* list is read under the read lock of ip4
GetIPsRead(c) ==
    /\ callers[c].pc = "ips_read"
    /\ heap[callers[c].h].ready
    /\ callers' = [callers EXCEPT ![c].pc = "ips_read6",
                                  ![c].l4 = getList(heap[callers[c].h].ip4)]
    /\ UNCHANGED <<hosts, stopCh, heap, sweepPc, hostsToDel, clock, addedNames, cliVars, dual, ipsRun, dmp>>

\* host.go:73: the v6 list is read under the read lock of ip6, the call
\* returns both lists
GetIPsRead6(c) ==
    /\ callers[c].pc = "ips_read6"
    /\ callers' = [callers EXCEPT ![c] = IdleCaller]
    /\ UNCHANGED <<hosts, stopCh, heap, sweepPc, hostsToDel, clock, addedNames, cliVars, dual, ipsRun, dmp>>

\* Resolver.emptyHosts: stops every entry of the map and replaces the map
emptyHosts ==
    /\ heap' = [id \in DOMAIN heap |->
                  IF \E n \in DOMAIN hosts : hosts[n] = id
                  THEN [stop(heap[id]) EXCEPT !.removedBy = "Stop"]
                  ELSE heap[id]]
    /\ hosts' = [n \in {} |-> NoHost]

\* oldHostsDeleteLoop, case <-r.stopCh
SweepStop ==
    /\ sweepPc = "select"
    /\ stopCh
    /\ emptyHosts
    /\ sweepPc' = "done"
    /\ UNCHANGED <<stopCh, callers, hostsToDel, clock, cliVars, dual, ipsRun, dmp>>

\* oldHostsDeleteLoop, lines 211-218: the names the scan collects
oldHosts(now) ==
    {n \in DOMAIN hosts : isOld(heap[hosts[n]], now) /\ ~isExplicitlyAdded(heap[hosts[n]])}

\* oldHostsDeleteLoop, case <-ticker.C: the scan under the read lock
SweepScan ==
    /\ sweepPc = "select"
    /\ hostsToDel' = oldHosts(clock)
    /\ sweepPc' = IF oldHosts(clock) # {} THEN "del" ELSE "select"
    /\ UNCHANGED <<hosts, stopCh, heap, callers, clock, addedNames, cliVars, dual, ipsRun, dmp>>

\* oldHostsDeleteLoop, lines 220-223: the removal under the write lock
SweepDel ==
    /\ sweepPc = "del"
    /\ delHosts(hostsToDel, "sweep")
    /\ sweepPc' = "select"
    /\ hostsToDel' = {}
    /\ UNCHANGED <<stopCh, callers, clock, cliVars, dual, ipsRun, dmp>>

\* host.reloadIPs, lines 96-102: lookupHost returns res
ReloadIPs(id, res) ==
    /\ heap[id].pc = "reload"
    /\ heap' = [heap EXCEPT ![id] = reloadIPsSet4(heap[id], res)]
    /\ UNCHANGED <<hosts, stopCh, callers, sweepPc, hostsToDel, clock, addedNames>>

\* host.reloadIPs, lines 103-105
ReloadSet6(id) ==
    /\ heap[id].pc = "set6"
    /\ heap' = [heap EXCEPT ![id] = reloadIPsSet6(heap[id])]
    /\ UNCHANGED <<hosts, stopCh, callers, sweepPc, hostsToDel, clock, addedNames, cliVars, dual, ipsRun, dmp>>

\* host.reloadIPsLoop, line 79: ready.Done() after the first reloadIPs
LoopDone(id) ==
    /\ heap[id].pc = "done"
    /\ heap' = [heap EXCEPT ![id].ready = TRUE, ![id].pc = "timer"]
    /\ UNCHANGED <<hosts, stopCh, callers, sweepPc, hostsToDel, clock, addedNames, cliVars, dual, ipsRun, dmp>>

\* host.reloadIPsLoop, lines 81 / 89: time.After(ttl seconds), then the
\* select; ttl is not read again before line 88 assigns it
LoopTimer(id) ==
    /\ heap[id].pc = "timer"
    /\ heap' = [heap EXCEPT ![id].ttlAt = clock + heap[id].ttl, ![id].ttl = 0,
                            ![id].pc = "select"]
    /\ UNCHANGED <<hosts, stopCh, callers, sweepPc, hostsToDel, clock, addedNames, cliVars, dual, ipsRun, dmp>>

\* a refresh of Spec: lookupHost is taken by what it returns
Reload(id) ==
    /\ \E res \in RegLookupResults : ReloadIPs(id, res)
    /\ UNCHANGED <<cliVars, dual, ipsRun, dmp>>

\* host.reloadIPsLoop, case <-h.stopCh
LoopStop(id) ==
    /\ heap[id].pc = "select"
    /\ heap[id].stopCh
    /\ heap' = [heap EXCEPT ![id].pc = "exit", ![id].ttlAt = 0]
    /\ UNCHANGED <<hosts, stopCh, callers, sweepPc, hostsToDel, clock, addedNames, cliVars, dual, ipsRun, dmp>>

\* host.reloadIPsLoop, case <-ttlCh: the timer has fired, reloadIPs is called
LoopTtl(id) ==
    /\ heap[id].pc = "select"
    /\ clock >= heap[id].ttlAt
    /\ heap' = [heap EXCEPT ![id].pc = "reload", ![id].ttlAt = 0]
    /\ UNCHANGED <<hosts, stopCh, callers, sweepPc, hostsToDel, clock, addedNames, cliVars, dual, ipsRun, dmp>>

\* The history of the explicit registrations (addedNames), kept by AddSpec;
\* the other specifications leave it alone.

\* AddHost returns at line 62 when the map holds the name
AddHostNoted(c, hName) ==
    /\ AddHost(c, hName)
    /\ addedNames' = IF hName \in DOMAIN hosts THEN addedNames \cup {hName} ELSE addedNames

\* AddHost returns at line 69
AddHostLockedNoted(c) ==
    /\ AddHostLocked(c)
    /\ addedNames' = addedNames \cup {callers[c].hostName}

DelHostNoted(c, hName) ==
    /\ DelHost(c, hName)
    /\ addedNames' = addedNames \ {hName}

StopNoted ==
    /\ Stop
    /\ addedNames' = {}

SweepStopNoted ==
    /\ SweepStop
    /\ addedNames' = {}

SweepDelNoted ==
    /\ SweepDel
    /\ addedNames' = addedNames \ hostsToDel

\* the wall clock advances
Tick ==
    /\ \E d \in ClockSteps : clock + d <= MaxClock /\ clock' = clock + d
    /\ UNCHANGED <<hosts, stopCh, heap, callers, sweepPc, hostsToDel, addedNames, cliVars, dual, ipsRun, dmp>>

\* "no index": lastOk when no lookup has succeeded since the nameserver list
\* was set, or a lookup has made an attempt since the last success
NoLastOk == 0 - 1

\* the other components at rest
CliIdle ==
    nameServers = <<>> /\ nsCounter = 0 /\ srvOk = {} /\ lookups = <<>> /\ lastOk = NoLastOk
DualIdle == dual = <<>>
IpsIdle == ipsRun = <<>>
DmpIdle == dmp = <<>>

\* New() at the epoch, the other components at rest
Init == RegInit /\ clock = 0 /\ CliIdle /\ DualIdle /\ IpsIdle /\ DmpIdle

Next ==
    \/ \E c \in Callers, n \in HostNames : AddHost(c, n) /\ UNCHANGED addedNames
    \/ \E c \in Callers : AddHostLocked(c) /\ UNCHANGED addedNames
    \/ \E c \in Callers, n \in HostNames : DelHost(c, n) /\ UNCHANGED addedNames
    \/ Stop /\ UNCHANGED addedNames
    \/ \E c \in Callers, n \in HostNames, fam \in {4, 6} : GetNextIPWithIdx(c, n, fam)
    \/ \E c \in Callers : GetNextIPLocked(c)
    \/ \E c \in Callers : GetNextIPRead(c)
    \/ \E c \in Callers : GetNextIPUpd(c)
    \/ \E c \in Callers, n \in HostNames : GetIPs(c, n)
    \/ \E c \in Callers : GetIPsRead(c)
    \/ \E c \in Callers : GetIPsRead6(c)
    \/ SweepStop /\ UNCHANGED addedNames
    \/ SweepScan
    \/ SweepDel /\ UNCHANGED addedNames
    \/ \E id \in DOMAIN heap : Reload(id)
    \/ \E id \in DOMAIN heap : ReloadSet6(id)
    \/ \E id \in DOMAIN heap : LoopDone(id)
    \/ \E id \in DOMAIN heap : LoopTimer(id)
    \/ \E id \in DOMAIN heap : LoopStop(id)

\* the registry: the callers of its API, the host tasks up to their select,
\* the eviction loop (ClockSpec lets the clock advance and the timers fire)
Spec == Init /\ [][Next]_vars

AddNext ==
    \/ \E c \in Callers, n \in HostNames : AddHostNoted(c, n)
    \/ \E c \in Callers : AddHostLockedNoted(c)
    \/ \E c \in Callers, n \in HostNames : DelHostNoted(c, n)
    \/ StopNoted
    \/ \E c \in Callers, n \in HostNames, fam \in {4, 6} : GetNextIPWithIdx(c, n, fam)
    \/ \E c \in Callers : GetNextIPLocked(c)
    \/ \E c \in Callers : GetNextIPRead(c)
    \/ \E c \in Callers : GetNextIPUpd(c)
    \/ SweepStopNoted
    \/ SweepScan
    \/ SweepDelNoted
    \/ \E id \in DOMAIN heap : Reload(id)
    \/ \E id \in DOMAIN heap : ReloadSet6(id)
    \/ \E id \in DOMAIN heap : LoopDone(id)
    \/ \E id \in DOMAIN heap : LoopTimer(id)
    \/ \E id \in DOMAIN heap : LoopStop(id)

\* the registry with the history of the explicit registrations: AddHost,
\* DelHost, the lazy creation by reads, the eviction loop and Stop
AddSpec == Init /\ [][AddNext]_vars

\* New() with the clock at the epoch or later
ClockInit == RegInit /\ CliIdle /\ DualIdle /\ IpsIdle /\ DmpIdle

ClockNext ==
    \/ Stop /\ UNCHANGED addedNames
    \/ \E c \in Callers, n \in HostNames, fam \in {4, 6} : GetNextIPWithIdx(c, n, fam)
    \/ \E c \in Callers : GetNextIPLocked(c)
    \/ \E c \in Callers : GetNextIPRead(c)
    \/ \E c \in Callers : GetNextIPUpd(c)
    \/ SweepStop /\ UNCHANGED addedNames
    \/ SweepScan
    \/ SweepDel /\ UNCHANGED addedNames
    \/ \E id \in DOMAIN heap : Reload(id)
    \/ \E id \in DOMAIN heap : ReloadSet6(id)
    \/ \E id \in DOMAIN heap : LoopDone(id)
    \/ \E id \in DOMAIN heap : LoopTimer(id)
    \/ \E id \in DOMAIN heap : LoopStop(id)
    \/ \E id \in DOMAIN heap : LoopTtl(id)
    \/ Tick

\* the registry under an advancing clock: the reads with their lazy creation,
\* the eviction loop, Stop, and the host tasks with their timers
ClockSpec == ClockInit /\ [][ClockNext]_vars

\* the registry's reads with their lazy creation, DelHost, Stop and the host
\* tasks (entries made by AddHost have the same gate)
GateInit == Init

GateNext ==
    \/ \E c \in Callers, n \in HostNames : DelHost(c, n) /\ UNCHANGED addedNames
    \/ Stop /\ UNCHANGED addedNames
    \/ \E c \in Callers, n \in HostNames, fam \in {4, 6} : GetNextIPWithIdx(c, n, fam)
    \/ \E c \in Callers : GetNextIPLocked(c)
    \/ \E c \in Callers : GetNextIPRead(c)
    \/ \E c \in Callers : GetNextIPUpd(c)
    \/ \E c \in Callers, n \in HostNames : GetIPs(c, n)
    \/ \E c \in Callers : GetIPsRead(c)
    \/ \E c \in Callers : GetIPsRead6(c)
    \/ SweepStop /\ UNCHANGED addedNames
    \/ \E id \in DOMAIN heap : Reload(id)
    \/ \E id \in DOMAIN heap : ReloadSet6(id)
    \/ \E id \in DOMAIN heap : LoopDone(id)
    \/ \E id \in DOMAIN heap : LoopTimer(id)
    \/ \E id \in DOMAIN heap : LoopStop(id)

\* the scheduling: a lookupHost that was called returns, so the reloadIPs of
\* a running task completes; a goroutine whose ready.Wait() can return runs on
GateFairness ==
    /\ \A id \in 1..MaxEntries :
          /\ WF_vars(id \in DOMAIN heap /\ Reload(id))
          /\ WF_vars(id \in DOMAIN heap /\ ReloadSet6(id))
          /\ WF_vars(id \in DOMAIN heap /\ LoopDone(id))
    /\ \A c \in Callers :
          /\ WF_vars(GetNextIPRead(c)) /\ WF_vars(GetNextIPUpd(c))
          /\ WF_vars(GetIPsRead(c)) /\ WF_vars(GetIPsRead6(c))

\* the registry's callers and host tasks under that scheduling
GateSpec == GateInit /\ [][GateNext]_vars /\ GateFairness

\* what lookupHost returns to the refreshes of ReadSpec: an error, or
\* addresses
AddrLookupResults ==
    { [ip4 |-> <<>>, ip6 |-> <<>>, ttl |-> defaultTtl, err |-> TRUE],
      [ip4 |-> <<"1.1.1.1", "1.1.1.2">>, ip6 |-> <<"::1">>, ttl |-> defaultTtl, err |-> FALSE],
      [ip4 |-> <<"1.1.1.2">>, ip6 |-> <<>>, ttl |-> 120, err |-> FALSE] }

\* a refresh of ReadSpec
ReloadAddr(id) ==
    /\ \E res \in AddrLookupResults : ReloadIPs(id, res)
    /\ UNCHANGED <<cliVars, dual, ipsRun, dmp>>

\* the state after New() and AddHost("a")
ReadInit ==
    /\ hosts = [n \in {"a"} |-> 1]
    /\ stopCh = FALSE
    /\ heap = <<newHost("a", TRUE, 0, TRUE)>>
    /\ callers = [c \in Callers |-> IdleCaller]
    /\ sweepPc = "select"
    /\ hostsToDel = {}
    /\ clock = 0
    /\ addedNames = {}
    /\ CliIdle /\ DualIdle /\ IpsIdle /\ DmpIdle

\* the reads start while the cursor of their family is below the bound
ReadNext ==
    \/ \E c \in Callers, n \in HostNames, fam \in {4, 6} :
          /\ ipsOf(heap[hosts[n]], fam).ipIdx < MaxIpIdx
          /\ GetNextIPWithIdx(c, n, fam)
    \/ \E c \in Callers : GetNextIPRead(c)
    \/ \E c \in Callers : GetNextIPAdd(c)
    \/ \E c \in Callers : GetNextIPUpd(c)
    \/ \E c \in Callers, n \in HostNames : GetIPs(c, n)
    \/ \E c \in Callers : GetIPsRead(c)
    \/ \E c \in Callers : GetIPsRead6(c)
    \/ \E id \in DOMAIN heap : ReloadAddr(id)
    \/ \E id \in DOMAIN heap : ReloadSet6(id)
    \/ \E id \in DOMAIN heap : LoopDone(id)
    \/ \E id \in DOMAIN heap : LoopTimer(id)
    \/ \E id \in DOMAIN heap : LoopTtl(id)
    \/ Tick

\* one entry with addresses: its refresh task and the reads of its callers
ReadSpec == ReadInit /\ [][ReadNext]_vars

\* ------------------------------------------------------------------------
\* dns client: setNameServers, lookupHost
\* ------------------------------------------------------------------------

\* the strings net.ParseIP accepts, among those the model uses
ValidIPs == {"10.0.0.1", "10.0.0.2", "10.0.0.3", "1.1.1.1", "1.1.1.2", "::1"}

\* strings.Contains(addr, ":"), among the strings the model uses
isV6(addr) == addr \in {"::1"}

\* the nameserver lists given to WithNameservers / setNameServers
NsInputs ==
    { <<>>,
      <<"bogus">>,
      <<"10.0.0.1", "10.0.0.2">>,
      <<"ns.example", "10.0.0.2">> }

\* the nameservers of the environment; srvOk is the set of those that answer
Servers == {"10.0.0.1", "10.0.0.2"}

\* what net.LookupHost gives: an error, or addresses
OsResults ==
    { [err |-> TRUE, addrs |-> <<>>],
      [err |-> FALSE, addrs |-> <<"1.1.1.1", "::1">>] }

\* what a successful dnsLookupHost gives (DualSpec runs dnsLookupHost
\* itself); the ttl of a result is written as the number of seconds
DualResults ==
    { [ip4 |-> <<"1.1.1.2">>, ip6 |-> <<>>, ttl |-> 120, err |-> FALSE] }

\* what a failed dnsLookupHost gives: the error of g.Wait(), next to whatever
\* the sub-queries have left in ip4, ip6 and ttl: both fail; or the A query
\* answers with a record of TTL 200 and the AAAA query fails, the ttl being
\* computed after or before the A goroutine has recorded it
DualFailures ==
    { [ip4 |-> <<>>, ip6 |-> <<>>, ttl |-> defaultTtl, err |-> TRUE],
      [ip4 |-> <<"1.1.1.2">>, ip6 |-> <<>>, ttl |-> 200, err |-> TRUE],
      [ip4 |-> <<"1.1.1.2">>, ip6 |-> <<>>, ttl |-> defaultTtl, err |-> TRUE] }

\* lookupHost, lines 71-75: the results before the first attempt
NoResult == [ip4 |-> <<>>, ip6 |-> <<>>, ttl |-> 0, err |-> FALSE]

\* parseNameServers: drops the strings that are no IP literals
parseNameServers(list) == SelectSeq(list, LAMBDA ns : ns \in ValidIPs)

\* osLookupResult returning net.LookupHost's error instead of nil (line 60 as
\* "return nil, nil, defaultTtl, err")
osLookupResultWithError(out) ==
    IF out.err
    THEN [ip4 |-> <<>>, ip6 |-> <<>>, ttl |-> defaultTtl, err |-> TRUE]
    ELSE [ip4 |-> SelectSeq(out.addrs, LAMBDA a : a \in ValidIPs /\ ~isV6(a)),
          ip6 |-> SelectSeq(out.addrs, LAMBDA a : a \in ValidIPs /\ isV6(a)),
          ttl |-> defaultTtl, err |-> FALSE]

\* lookupHost, lines 57-68: the result of the OS resolver path
osLookupResult(out) ==
    IF out.err
    THEN [ip4 |-> <<>>, ip6 |-> <<>>, ttl |-> defaultTtl, err |-> FALSE]
    ELSE [ip4 |-> SelectSeq(out.addrs, LAMBDA a : a \in ValidIPs /\ ~isV6(a)),
          ip6 |-> SelectSeq(out.addrs, LAMBDA a : a \in ValidIPs /\ isV6(a)),
          ttl |-> defaultTtl, err |-> FALSE]

\* a lookupHost call of the task of entry id. attempted, reconf, failed and
\* solo are history fields: the nameservers this call has queried;
\* setNameServers ran during the call; the resolution failed (every attempt,
\* or the OS resolver); no other call has made its attempts during this one
IdleLookup ==
    [pc |-> "idle", nsCnt |-> 0, i |-> 0, nsIdx |-> 0, nServer |-> "", res |-> NoResult,
     attempted |-> {}, reconf |-> FALSE, failed |-> FALSE, solo |-> FALSE]

\* the calls that are making attempts: neither idle nor about to return
Busy(id) == lookups[id].pc \notin {"idle", "ret"}

Range(seq) == {seq[k] : k \in DOMAIN seq}

\* dnsClient.setNameServers
setNameServers(list) ==
    /\ nameServers' = parseNameServers(list)
    /\ lookups' = [id \in DOMAIN lookups |->
                     IF lookups[id].pc \in {"idle", "panic"}
                     THEN lookups[id]
                     ELSE [lookups[id] EXCEPT !.reconf = TRUE]]
    /\ lastOk' = NoLastOk
    /\ UNCHANGED <<nsCounter, srvOk, regVars, dual, ipsRun, dmp>>

\* lookupHost, lines 52-56: reloadIPs calls lookupHost, which reads the
\* number of nameservers under the read lock
LookupStart(id) ==
    /\ heap[id].pc = "reload"
    /\ lookups[id].pc = "idle"
    /\ lookups' = [j \in DOMAIN lookups |->
            IF j = id
            THEN [IdleLookup EXCEPT !.pc = IF Len(nameServers) = 0 THEN "os" ELSE "pick",
                                    !.nsCnt = Len(nameServers),
                                    !.solo = \A k \in DOMAIN lookups \ {id} : ~Busy(k)]
            ELSE IF Busy(j) THEN [lookups[j] EXCEPT !.solo = FALSE] ELSE lookups[j]]
    /\ UNCHANGED <<nameServers, nsCounter, srvOk, lastOk, regVars, dual, ipsRun, dmp>>

\* lookupHost, lines 57-69: no nameservers, the OS resolver answers
LookupOS(id) ==
    /\ lookups[id].pc = "os"
    /\ \E out \in OsResults :
          lookups' = [lookups EXCEPT ![id].pc = "ret",
                                     ![id].res = osLookupResult(out),
                                     ![id].failed = out.err]
    /\ UNCHANGED <<nameServers, nsCounter, srvOk, lastOk, regVars, dual, ipsRun, dmp>>

\* lookupHost, lines 78-81: the nameserver of this attempt, under the read
\* lock; the modulo by an empty list's length is a run-time panic
LookupPick(id) ==
    /\ lookups[id].pc = "pick"
    /\ lookups' = [lookups EXCEPT ![id] =
            IF Len(nameServers) = 0
            THEN [@ EXCEPT !.pc = "panic"]
            ELSE [@ EXCEPT !.pc = "query",
                           !.nsIdx = nsCounter % Len(nameServers),
                           !.nServer = nameServers[(nsCounter % Len(nameServers)) + 1],
                           !.attempted = @ \cup {nameServers[(nsCounter % Len(nameServers)) + 1]}]]
    /\ lastOk' = NoLastOk
    /\ UNCHANGED <<nameServers, nsCounter, srvOk, regVars, dual, ipsRun, dmp>>

\* lookupHost, lines 83-90: dnsLookupHost answers; on success the loop ends,
\* on failure the shared counter advances and the loop goes on or runs out.
\* lastOk becomes the index that answered when no other lookup has been under
\* way and the list is the one the index was taken from
LookupQuery(id) ==
    /\ lookups[id].pc = "query"
    /\ IF lookups[id].nServer \in srvOk
       THEN /\ \E out \in DualResults :
                  lookups' = [lookups EXCEPT ![id].pc = "ret", ![id].res = out]
            /\ lastOk' = IF ~lookups[id].reconf /\ lookups[id].solo
                         THEN lookups[id].nsIdx
                         ELSE NoLastOk
            /\ UNCHANGED nsCounter
       ELSE /\ nsCounter' = nsCounter + 1
            /\ lastOk' = NoLastOk
            /\ \E out \in DualFailures :
                  lookups' = [lookups EXCEPT ![id] =
                      IF lookups[id].i + 1 < lookups[id].nsCnt
                      THEN [@ EXCEPT !.pc = "pick", !.i = @ + 1, !.res = out]
                      ELSE [@ EXCEPT !.pc = "ret", !.i = @ + 1, !.res = out,
                                     !.failed = TRUE]]
    /\ UNCHANGED <<nameServers, srvOk, regVars, dual, ipsRun, dmp>>

\* lookupHost returns to reloadIPs (host.go:96-102)
LookupReturn(id) ==
    /\ lookups[id].pc = "ret"
    /\ ReloadIPs(id, lookups[id].res)
    /\ lookups' = [lookups EXCEPT ![id] = IdleLookup]
    /\ UNCHANGED <<nameServers, nsCounter, srvOk, lastOk, dual, ipsRun, dmp>>

\* the hosts of LookupSpec
LookupHosts == <<"a", "b">>

\* the state after New().WithNameservers(list), AddHost("a"), AddHost("b"),
\* with the refresh tasks about to make their first lookup
LookupInit ==
    /\ hosts = [n \in Range(LookupHosts) |-> CHOOSE k \in DOMAIN LookupHosts : LookupHosts[k] = n]
    /\ stopCh = FALSE
    /\ heap = [k \in DOMAIN LookupHosts |-> newHost(LookupHosts[k], TRUE, 0, TRUE)]
    /\ callers = [c \in Callers |-> IdleCaller]
    /\ sweepPc = "select"
    /\ hostsToDel = {}
    /\ clock = 0
    /\ addedNames = {}
    /\ \E list \in NsInputs : nameServers = parseNameServers(list)
    /\ nsCounter = 0
    /\ srvOk \in SUBSET Servers
    /\ lookups = [k \in DOMAIN LookupHosts |-> IdleLookup]
    /\ lastOk = NoLastOk
    /\ DualIdle /\ IpsIdle /\ DmpIdle

LookupNext ==
    \/ \E list \in NsInputs : setNameServers(list)
    \/ \E id \in DOMAIN heap : LookupStart(id)
    \/ \E id \in DOMAIN heap : LookupOS(id)
    \/ \E id \in DOMAIN heap : LookupPick(id)
    \/ \E id \in DOMAIN heap : LookupQuery(id)
    \/ \E id \in DOMAIN heap : LookupReturn(id)
    \/ \E id \in DOMAIN heap : ReloadSet6(id)
    \/ \E id \in DOMAIN heap : LoopDone(id)
    \/ \E id \in DOMAIN heap : LoopTimer(id)
    \/ \E id \in DOMAIN heap : LoopTtl(id)
    \/ Tick

\* the nameserver client under the refresh tasks of two hosts
LookupSpec == LookupInit /\ [][LookupNext]_vars

\* ------------------------------------------------------------------------
\* dns client: dnsLookupHost, one dual query
\* ------------------------------------------------------------------------

\* the TTLs of the answer records: below and above the floor, the largest
\* TTL of RFC 2181 (2147483647) and the largest below math.MaxUint32
\* (4294967294)
DualTtls ==
    {U32(40), U32(90), U32(200), U32(2147483647), [hi |-> 65535, lo |-> 65534]}

\* the records of an answer: one of the type asked for (dns.A for the A
\* query, dns.AAAA for the AAAA query) with its TTL, or one of another type
AnswerRecs ==
    {[match |-> TRUE, ttl |-> t] : t \in DualTtls} \cup {[match |-> FALSE, ttl |-> U32(30)]}

\* what dns.Exchange gives a sub-query: an error, or an answer section
Answers ==
    {[err |-> TRUE, rrs |-> <<>>]} \cup
    {[err |-> FALSE, rrs |-> rrs] : rrs \in UNION {[1..n -> AnswerRecs] : n \in 0..MaxRecs}}

\* dnsLookupHost, lines 138-141: the ttl after the test of ttl4
ttlAfterA(t4) ==
    IF Less(U32(defaultTtl), t4) /\ t4 # MaxUint32 THEN t4 ELSE U32(defaultTtl)

\* dnsLookupHost, lines 142-144: the ttl after the test of ttl6
ttlAfterAAAA(ttl, t4, t6) ==
    IF Less(U32(defaultTtl), t6) /\ t6 # MaxUint32 /\ Less(t6, t4) THEN t6 ELSE ttl

\* dnsLookupHost, lines 138-144, on one pair of values of ttl4 and ttl6
selectTtl(t4, t6) == ttlAfterAAAA(ttlAfterA(t4), t4, t6)

\* a sub-query goroutine before dns.Exchange returns
NewGoroutine == [pc |-> "exchange", k |-> 0, err |-> FALSE]

\* dnsLookupHost, lines 95-136: both goroutines started, nothing recorded yet.
\* n4 and n6 are the lengths of ip4 and ip6; raced is a history field: main
\* read ttl4 or ttl6 while the goroutine writing it was still running
NewDual(a4, a6) ==
    [pc |-> "ttl4", ans4 |-> a4, ans6 |-> a6, g4 |-> NewGoroutine, g6 |-> NewGoroutine,
     ttl4 |-> MaxUint32, ttl6 |-> MaxUint32, n4 |-> 0, n6 |-> 0,
     ttl |-> U32(0), ret4 |-> 0, ret6 |-> 0, early |-> FALSE, err |-> FALSE, raced |-> FALSE]

\* a goroutine after dns.Exchange returned ans: it returns the error, or goes
\* through the answer records (none: it returns nil at once)
afterExchange(g, ans) ==
    IF ans.err THEN [g EXCEPT !.pc = "done", !.err = TRUE]
    ELSE IF Len(ans.rrs) = 0 THEN [g EXCEPT !.pc = "done"]
    ELSE [g EXCEPT !.pc = "loop"]

\* a goroutine after one more answer record
afterRecord(g, ans) ==
    [g EXCEPT !.k = @ + 1, !.pc = IF g.k + 1 = Len(ans.rrs) THEN "done" ELSE "loop"]

\* lines 111-113 / 130-132: the minimum TTL after record rr
minTtl(t, rr) == IF rr.match /\ Less(rr.ttl, t) THEN rr.ttl ELSE t

\* lines 110 / 129: the length of the address list after record rr
appended(n, rr) == IF rr.match THEN n + 1 ELSE n

\* the A goroutine, lines 102-107: dns.Exchange returns
Exchange4 ==
    /\ dual.g4.pc = "exchange"
    /\ dual' = [dual EXCEPT !.g4 = afterExchange(@, dual.ans4)]
    /\ UNCHANGED <<regVars, cliVars, ipsRun, dmp>>

\* the A goroutine, lines 108-116: one answer record
Record4 ==
    /\ dual.g4.pc = "loop"
    /\ dual' = [dual EXCEPT !.g4 = afterRecord(@, dual.ans4),
                            !.n4 = appended(@, dual.ans4.rrs[dual.g4.k + 1]),
                            !.ttl4 = minTtl(@, dual.ans4.rrs[dual.g4.k + 1])]
    /\ UNCHANGED <<regVars, cliVars, ipsRun, dmp>>

\* the AAAA goroutine, lines 121-126: dns.Exchange returns
Exchange6 ==
    /\ dual.g6.pc = "exchange"
    /\ dual' = [dual EXCEPT !.g6 = afterExchange(@, dual.ans6)]
    /\ UNCHANGED <<regVars, cliVars, ipsRun, dmp>>

\* the AAAA goroutine, lines 127-135: one answer record
Record6 ==
    /\ dual.g6.pc = "loop"
    /\ dual' = [dual EXCEPT !.g6 = afterRecord(@, dual.ans6),
                            !.n6 = appended(@, dual.ans6.rrs[dual.g6.k + 1]),
                            !.ttl6 = minTtl(@, dual.ans6.rrs[dual.g6.k + 1])]
    /\ UNCHANGED <<regVars, cliVars, ipsRun, dmp>>

\* main, lines 138-141: reads ttl4, whatever the A goroutine has written
MainTtl4 ==
    /\ dual.pc = "ttl4"
    /\ dual' = [dual EXCEPT !.pc = "ttl6",
                            !.ttl = ttlAfterA(dual.ttl4),
                            !.raced = @ \/ dual.g4.pc # "done"]
    /\ UNCHANGED <<regVars, cliVars, ipsRun, dmp>>

\* main, lines 142-144: reads ttl6 and ttl4, whatever the goroutines have
\* written
MainTtl6 ==
    /\ dual.pc = "ttl6"
    /\ dual' = [dual EXCEPT !.pc = "operands",
                            !.ttl = ttlAfterAAAA(@, dual.ttl4, dual.ttl6),
                            !.raced = @ \/ dual.g4.pc # "done" \/ dual.g6.pc # "done"]
    /\ UNCHANGED <<regVars, cliVars, ipsRun, dmp>>

\* main, line 146: the operands ip4 and ip6 of the return statement are read
\* before or after the call of g.Wait() (the order is not specified)
MainOperands ==
    /\ dual.pc = "operands"
    /\ \E early \in BOOLEAN :
          dual' = [dual EXCEPT !.pc = "wait", !.early = early,
                               !.ret4 = IF early THEN dual.n4 ELSE 0,
                               !.ret6 = IF early THEN dual.n6 ELSE 0]
    /\ UNCHANGED <<regVars, cliVars, ipsRun, dmp>>

\* main, line 146: g.Wait() returns when both goroutines have, with the error
\* of the group; dnsLookupHost returns
MainWait ==
    /\ dual.pc = "wait"
    /\ dual.g4.pc = "done" /\ dual.g6.pc = "done"
    /\ dual' = [dual EXCEPT !.pc = "done",
                            !.ret4 = IF dual.early THEN @ ELSE dual.n4,
                            !.ret6 = IF dual.early THEN @ ELSE dual.n6,
                            !.err = dual.g4.err \/ dual.g6.err]
    /\ UNCHANGED <<regVars, cliVars, ipsRun, dmp>>

\* one dnsLookupHost call right after its two g.Go calls
DualInit ==
    /\ RegIdle
    /\ CliIdle
    /\ IpsIdle /\ DmpIdle
    /\ \E a4 \in Answers, a6 \in Answers : dual = NewDual(a4, a6)

DualNext ==
    \/ Exchange4
    \/ Record4
    \/ Exchange6
    \/ Record6
    \/ MainTtl4
    \/ MainTtl6
    \/ MainOperands
    \/ MainWait

\* one dual query: main and the A and AAAA goroutines
DualSpec == DualInit /\ [][DualNext]_vars

\* ------------------------------------------------------------------------
\* ips.go: one ips under concurrent getNextIPWithIndex and setIpList calls
\* ------------------------------------------------------------------------

\* the goroutines that call getNextIPWithIndex
Readers == {1, 2}

\* the address lists setIpList is given
IpLists ==
    { <<>>, <<"1.1.1.1">>, <<"1.1.1.1", "1.1.1.2">>, <<"10.0.0.1", "10.0.0.2", "10.0.0.3">> }

\* a getNextIPWithIndex call: not running, or between RUnlock and the
\* atomic add; ip, idx is what it returns; seen is a history field, the list
\* it read
IdleReader == [pc |-> "idle", ip |-> NilIP, idx |-> 0, seen |-> <<>>]

\* the calls between RUnlock and the atomic add
Adding == {r \in Readers : ipsRun.readers[r].pc = "add"}

\* newIps(), no call running. log and clean are history: the results of the
\* calls that returned one after the other (none overlapping another) since
\* the list was set; clean is FALSE while calls overlap each other or a
\* setIpList
IpsInit ==
    /\ RegIdle /\ CliIdle /\ DualIdle /\ DmpIdle
    /\ ipsRun = [ips |-> newIps, readers |-> [r \in Readers |-> IdleReader],
                 log |-> <<>>, clean |-> TRUE]

\* the history after a call has returned res
Logged(res, others) ==
    IF ipsRun.clean
    THEN [log |-> IF Len(ipsRun.log) < MaxLog THEN Append(ipsRun.log, res) ELSE ipsRun.log,
          clean |-> TRUE]
    ELSE [log |-> <<>>, clean |-> others = {}]

\* getNextIPWithIndex, lines 45-53: the part under the read lock; with an
\* empty list the call returns here
IpsRead(r) ==
    LET res == getNextIPRead(ipsRun.ips)
        now == [pc |-> "add", ip |-> res[1], idx |-> res[2], seen |-> ipsRun.ips.ipList]
        overlap == Adding # {}
    IN
    /\ ipsRun.readers[r].pc = "idle"
    /\ ipsRun.ips.ipIdx < MaxIpIdx
    /\ ipsRun' =
          IF Len(ipsRun.ips.ipList) = 0
          THEN [ipsRun EXCEPT !.readers[r] = [now EXCEPT !.pc = "idle"],
                              !.log = Logged(now, Adding).log,
                              !.clean = Logged(now, Adding).clean]
          ELSE [ipsRun EXCEPT !.readers[r] = now,
                              !.log = IF overlap THEN <<>> ELSE @,
                              !.clean = @ /\ ~overlap]
    /\ UNCHANGED <<regVars, cliVars, dual, dmp>>

\* getNextIPWithIndex, lines 55-57: the atomic add, and the return
IpsAdd(r) ==
    /\ ipsRun.readers[r].pc = "add"
    /\ ipsRun' = [ipsRun EXCEPT !.ips = advance(@),
                                !.readers[r].pc = "idle",
                                !.log = Logged(ipsRun.readers[r], Adding \ {r}).log,
                                !.clean = Logged(ipsRun.readers[r], Adding \ {r}).clean]
    /\ UNCHANGED <<regVars, cliVars, dual, dmp>>

\* ips.setIpList (by host.reloadIPs): the list is replaced, the cursor stays
IpsSet(list) ==
    /\ ipsRun' = [ipsRun EXCEPT !.ips = setIpList(@, list),
                                !.log = <<>>,
                                !.clean = Adding = {}]
    /\ UNCHANGED <<regVars, cliVars, dual, dmp>>

IpsNext ==
    \/ \E r \in Readers : IpsRead(r)
    \/ \E r \in Readers : IpsAdd(r)
    \/ \E list \in IpLists : IpsSet(list)

\* one address set: round-robin readers and replacements
IpsSpec == IpsInit /\ [][IpsNext]_vars

\* ------------------------------------------------------------------------
\* resolver.go: Resolver.mu, DumpPrefix and the calls that take the write lock
\* ------------------------------------------------------------------------

\* the eviction goroutine, next to the callers
Sweeper == 0
DumpProcs == Callers \cup {Sweeper}

\* a goroutine that is to take r.mu.Lock(): pc is "idle", "call" (past its
\* check under the read lock, before Lock()), "pend" (in Lock(), waiting for
\* the readers to leave) or "done" (the eviction loop after Stop)
IdleProc == [pc |-> "idle", op |-> "none", names |-> {}]

\* a DumpPrefix call: pc is "idle", "inner" (at the RLock of GetIPs for
\* names[k]), "wait" (in host.getIPs of entry h) or "unlock" (at the deferred
\* RUnlock)
IdleDump == [pc |-> "idle", names |-> <<>>, k |-> 0, h |-> NoHost]

\* sync.RWMutex: rc counts the read locks held; a goroutine in Lock() (pend)
\* keeps new RLock calls waiting; Lock() returns when no read lock is held.
\* The sections under the write lock, and those under a read lock other than
\* DumpPrefix's, do not block and are single steps.
Pending == {p \in DumpProcs : dmp.w[p].pc = "pend"}
CanRLock == Pending = {}
CanLock == dmp.rc = 0

\* the calls on their way to creating an entry
Creating == {p \in DumpProcs : dmp.w[p].op \in {"AddHost", "GetNextIP"}}

\* New(), and no call running
DumpInit ==
    /\ RegIdle /\ CliIdle /\ DualIdle /\ IpsIdle
    /\ dmp = [rc |-> 0, dump |-> IdleDump, w |-> [p \in DumpProcs |-> IdleProc]]

\* AddHost lines 57-63, GetNextIPWithIdx lines 90-97: the name is not in the
\* map under the read lock, the call goes on to Lock()
DumpCheck(p, op, n) ==
    /\ p \in Callers /\ dmp.w[p].pc = "idle"
    /\ CanRLock
    /\ n \notin DOMAIN hosts
    /\ Len(heap) + Cardinality(Creating) < MaxEntries
    /\ dmp' = [dmp EXCEPT !.w[p] = [pc |-> "call", op |-> op, names |-> {n}]]
    /\ UNCHANGED <<regVars, cliVars, dual, ipsRun>>

\* oldHostsDeleteLoop lines 211-218: the scan under the read lock finds names
DumpScan ==
    /\ dmp.w[Sweeper].pc = "idle"
    /\ CanRLock
    /\ oldHosts(clock) # {}
    /\ dmp' = [dmp EXCEPT !.w[Sweeper] = [pc |-> "call", op |-> "sweep", names |-> oldHosts(clock)]]
    /\ UNCHANGED <<regVars, cliVars, dual, ipsRun>>

\* r.mu.Lock() is called: by a call past its check (lines 63, 97), by the
\* eviction loop with its names (delHosts line 230) or after the stop case
\* (emptyHosts line 239); DumpDelHost is DelHost's call of delHosts
DumpLockCall(p) ==
    /\ dmp.w[p].pc = "call"
    /\ dmp' = [dmp EXCEPT !.w[p].pc = "pend"]
    /\ UNCHANGED <<regVars, cliVars, dual, ipsRun>>

DumpDelHost(p, n) ==
    /\ p \in Callers /\ dmp.w[p].pc = "idle"
    /\ dmp' = [dmp EXCEPT !.w[p] = [pc |-> "pend", op |-> "DelHost", names |-> {n}]]
    /\ UNCHANGED <<regVars, cliVars, dual, ipsRun>>

\* Stop line 79: close(r.stopCh), whatever the eviction loop is doing
DumpStop ==
    /\ ~stopCh
    /\ stopCh' = TRUE
    /\ UNCHANGED <<hosts, heap, callers, sweepPc, hostsToDel, clock, addedNames,
                   cliVars, dual, ipsRun, dmp>>

\* oldHostsDeleteLoop lines 206-208: the select takes the stop case, the loop
\* goes on to emptyHosts and its Lock()
DumpSelectStop ==
    /\ dmp.w[Sweeper].pc = "idle"
    /\ stopCh
    /\ dmp' = [dmp EXCEPT !.w[Sweeper] = [pc |-> "call", op |-> "Stop", names |-> {}]]
    /\ UNCHANGED <<regVars, cliVars, dual, ipsRun>>

\* Lock() returns, the section under the write lock runs, Unlock()
DumpLocked(p) ==
    LET op == dmp.w[p].op
        n == CHOOSE x \in dmp.w[p].names : TRUE
    IN
    /\ dmp.w[p].pc = "pend"
    /\ CanLock
    /\ CASE op \in {"AddHost", "GetNextIP"} ->
              IF n \notin DOMAIN hosts
              THEN WithNewHost(n, op = "AddHost")
              ELSE UNCHANGED <<hosts, heap>>
         [] op = "DelHost" -> delHosts(dmp.w[p].names, "DelHost")
         [] op = "sweep" -> delHosts(dmp.w[p].names, "sweep")
         [] op = "Stop" -> emptyHosts
    /\ dmp' = [dmp EXCEPT !.w[p] = IF op = "Stop" THEN [IdleProc EXCEPT !.pc = "done"] ELSE IdleProc]
    /\ UNCHANGED <<stopCh, callers, sweepPc, hostsToDel, clock, addedNames,
                   cliVars, dual, ipsRun>>

\* DumpPrefix lines 176-183: RLock (released on return only), the sorted names
DumpRLock ==
    LET names == SelectSeq(LookupHosts, LAMBDA n : n \in DOMAIN hosts) IN
    /\ dmp.dump.pc = "idle"
    /\ CanRLock
    /\ dmp' = [dmp EXCEPT !.rc = @ + 1,
                          !.dump = [pc |-> IF Len(names) = 0 THEN "unlock" ELSE "inner",
                                    names |-> names, k |-> 1, h |-> NoHost]]
    /\ UNCHANGED <<regVars, cliVars, dual, ipsRun>>

\* DumpPrefix line 186 -> GetIPsStr -> GetIPs lines 140-142: a second RLock,
\* the lookup, RUnlock
DumpGetIPs ==
    LET n == dmp.dump.names[dmp.dump.k] IN
    /\ dmp.dump.pc = "inner"
    /\ CanRLock
    /\ dmp' = [dmp EXCEPT !.dump.pc = "wait",
                          !.dump.h = IF n \in DOMAIN hosts THEN hosts[n] ELSE NoHost]
    /\ UNCHANGED <<regVars, cliVars, dual, ipsRun>>

\* GetIPs lines 144-148: host.getIPs waits for ready; DumpPrefix lines
\* 187-195 print, the loop goes on
DumpGetIPsRead ==
    /\ dmp.dump.pc = "wait"
    /\ dmp.dump.h # NoHost => heap[dmp.dump.h].ready
    /\ dmp' = [dmp EXCEPT !.dump.pc = IF dmp.dump.k = Len(dmp.dump.names) THEN "unlock" ELSE "inner",
                          !.dump.k = @ + 1,
                          !.dump.h = NoHost]
    /\ UNCHANGED <<regVars, cliVars, dual, ipsRun>>

\* DumpPrefix line 177: the deferred RUnlock, the call returns
DumpRUnlock ==
    /\ dmp.dump.pc = "unlock"
    /\ dmp' = [dmp EXCEPT !.rc = @ - 1, !.dump = IdleDump]
    /\ UNCHANGED <<regVars, cliVars, dual, ipsRun>>

DumpNext ==
    \/ \E p \in Callers, op \in {"AddHost", "GetNextIP"}, n \in Range(LookupHosts) : DumpCheck(p, op, n)
    \/ DumpScan
    \/ \E p \in DumpProcs : DumpLockCall(p)
    \/ \E p \in Callers, n \in Range(LookupHosts) : DumpDelHost(p, n)
    \/ DumpStop
    \/ DumpSelectStop
    \/ \E p \in DumpProcs : DumpLocked(p)
    \/ DumpRLock
    \/ DumpGetIPs
    \/ DumpGetIPsRead
    \/ DumpRUnlock
    \/ \E id \in DOMAIN heap : Reload(id)
    \/ \E id \in DOMAIN heap : ReloadSet6(id)
    \/ \E id \in DOMAIN heap : LoopDone(id)
    \/ \E id \in DOMAIN heap : LoopTimer(id)

\* Dump calls among the calls that change the map
DumpSpec == DumpInit /\ [][DumpNext]_vars

\* ------------------------------------------------------------------------
\* Properties of the registry (Spec)
\* ------------------------------------------------------------------------

\* the entries made for hostname n that nobody has taken out of the map
LiveEntries(n) == {i \in DOMAIN heap : heap[i].hostName = n /\ heap[i].removedBy = "none"}

\* C1: the registry holds at most one HostEntry per hostname: every entry
\* that was created (and so every refresh task that was started) and not
\* removed since is the one the map holds for its hostname; racing AddHost,
\* GetNextIPWithIdx and GetNextIP6WithIdx calls for an absent hostname leave
\* exactly one entry, and AddHost of a present hostname creates nothing.
C1_OneEntryPerHost ==
    /\ \A n \in HostNames :
          /\ Cardinality(LiveEntries(n)) <= 1
          /\ n \in DOMAIN hosts <=> LiveEntries(n) # {}
          /\ n \in DOMAIN hosts => LiveEntries(n) = {hosts[n]}
    /\ \A c \in Callers :
          callers[c].pc \in {"get_read", "get_add", "get_upd", "ips_read", "ips_read6"}
          => callers[c].h \in DOMAIN heap

\* C1 witness: a caller passed AddHost's first check while the hostname was
\* absent, and another call has created the entry before its second check
C1_Witness ==
    \E c \in Callers :
        /\ callers[c].pc = "add_lock"
        /\ callers[c].hostName \in DOMAIN hosts
        /\ ~heap[hosts[callers[c].hostName]].eaFlag

\* C2: every entry taken out of the registry mapping (by DelHost, by the
\* eviction sweep or by Stop) has its stop signal raised, so that its task
\* can exit.
C2_RemovedIsStopped ==
    \A i \in DOMAIN heap : heap[i].removedBy # "none" => heap[i].stopCh

\* C3: an entry created by AddHost (explicit flag set) is never removed by
\* the eviction sweep.
C3_ExplicitNeverSwept ==
    \A i \in DOMAIN heap : heap[i].eaFlag => heap[i].removedBy # "sweep"

\* C4: an implicit entry whose last access is more than 30 minutes before
\* the current time is judged old by the staleness test (and so is collected
\* by the next sweep, which removes exactly the implicit entries judged old).
C4_StaleImplicitIsOld ==
    \A n \in DOMAIN hosts :
        (/\ ~heap[hosts[n]].eaFlag
         /\ heap[hosts[n]].lastTime < clock - oldHostDuration)
        => (isOld(heap[hosts[n]], clock) /\ n \in oldHosts(clock))

\* C8: once the eviction task has handled Stop() and exited, every entry
\* created before the Stop, also one removed earlier by DelHost or by the
\* sweep, has its stop signal raised (without it its task never exits).
C8_StopReachesEveryTask ==
    sweepPc = "done" => \A i \in DOMAIN heap : heap[i].preStop => heap[i].stopCh

\* C9: a query that starts after Stop() has returned never uses an entry that
\* was created before the Stop.
C9_NoPreStopEntryAfterStop ==
    \A c \in Callers :
        (callers[c].afterStop /\ callers[c].h # NoHost) => ~heap[callers[c].h].preStop

\* C20: while the map holds an entry for a hostname for which an AddHost has
\* returned (none removed it since), the eviction scan does not collect the
\* hostname, also when the entry was created implicitly by an earlier lookup.
C20_AddedHostIsExempt ==
    \A n \in addedNames \cap DOMAIN hosts : n \notin oldHosts(clock)

\* C17: a task whose entry's stop signal has been raised starts no further
\* refresh: at its select the stop case is taken, also when the timer has
\* expired as well.
C17_StopBeatsTimer ==
    [][\A id \in DOMAIN heap :
          (heap[id].stopCh /\ heap[id].pc = "select") => heap'[id].pc # "reload"]_vars

\* the calls waiting in, or about to pass, ready.Wait() of their entry
AtGate(c) == callers[c].pc \in {"get_read", "ips_read"}

\* C15: a round-robin read or full-list read returns only when the first
\* refresh of its entry has completed (the gate is satisfied); a satisfied
\* gate stays satisfied and a new entry's gate is not; a read whose entry's
\* gate is satisfied can return at once; and every read waiting at the gate
\* returns eventually, given that the first lookup terminates.
C15_ReadinessGate ==
    /\ [][/\ \A c \in Callers :
               (AtGate(c) /\ callers'[c].pc # callers[c].pc) => heap[callers[c].h].ready
          /\ \A id \in DOMAIN heap : heap[id].ready => heap'[id].ready
          /\ \A id \in DOMAIN heap' \ DOMAIN heap : ~heap'[id].ready]_vars
    /\ [](\A c \in Callers :
             /\ (callers[c].pc = "get_read" /\ heap[callers[c].h].ready)
                => ENABLED GetNextIPRead(c)
             /\ (callers[c].pc = "ips_read" /\ heap[callers[c].h].ready)
                => ENABLED GetIPsRead(c))
    /\ \A c \in Callers : AtGate(c) ~> callers[c].pc = "idle"

\* C15 witness: a read waits at the gate of an entry whose first refresh has
\* not completed, and the entry has already been stopped by Stop
C15_Witness ==
    \E c \in Callers :
        /\ AtGate(c)
        /\ ~heap[callers[c].h].ready
        /\ heap[callers[c].h].stopCh

\* ------------------------------------------------------------------------
\* Properties of the nameserver client (LookupSpec)
\* ------------------------------------------------------------------------

\* C7: a refresh whose name resolution failed (every nameserver's dual query
\* failed, or the OS resolver failed) leaves the entry's v4 and v6 address
\* lists as they were: reloadIPs returns without storing either list.
C7_FailedRefreshKeepsAddresses ==
    [][\A id \in DOMAIN lookups :
          (lookups[id].pc = "ret" /\ lookups[id].failed /\ lookups'[id].pc = "idle")
          => /\ getList(heap'[id].ip4) = getList(heap[id].ip4)
             /\ getList(heap'[id].ip6) = getList(heap[id].ip6)
             /\ heap'[id].pc \in {"done", "timer"}]_vars

\* C10: with N >= 1 nameservers configured (and not reconfigured meanwhile),
\* a lookupHost returns an error only if it has attempted every configured
\* nameserver, and it succeeds if one of them answers, also when other
\* lookups advance the shared counter concurrently.
C10_ErrorOnlyAfterAllTried ==
    \A id \in DOMAIN lookups :
        (lookups[id].pc = "ret" /\ lookups[id].nsCnt >= 1 /\ ~lookups[id].reconf)
        => /\ lookups[id].res.err => Range(nameServers) \subseteq lookups[id].attempted
           /\ Range(nameServers) \cap srvOk # {} => ~lookups[id].res.err

\* C11: when a lookup has succeeded against the nameserver at index i of the
\* N configured and no other lookup has made an attempt since, the first
\* attempt of the next lookup goes to the nameserver at index (i + 1) mod N.
C11_NextLookupStartsAfterSuccess ==
    [][\A id \in DOMAIN lookups :
          (lastOk # NoLastOk /\ lookups[id].pc = "pick" /\ lookups'[id].pc = "query")
          => lookups'[id].nsIdx = (lastOk + 1) % Len(nameServers)]_vars

\* C12: a setNameServers that runs during a lookupHost, also one that leaves
\* the list shorter or empty after the lookup has read the nameserver count,
\* never makes the lookup divide by a zero length (a run-time panic) nor
\* select an index outside the list it reads.
C12_LookupSurvivesReconfig ==
    \A id \in DOMAIN lookups :
        /\ lookups[id].pc # "panic"
        /\ lookups[id].pc = "query" => lookups[id].nServer \in ValidIPs

\* C16: with no nameserver configured, a lookupHost whose OS resolver call
\* fails returns two empty address lists, the default TTL of 60 seconds and
\* no error.
C16_OsFailureIsSwallowed ==
    \A id \in DOMAIN lookups :
        (lookups[id].pc = "ret" /\ lookups[id].nsCnt = 0 /\ lookups[id].failed)
        => lookups[id].res = [ip4 |-> <<>>, ip6 |-> <<>>, ttl |-> 60, err |-> FALSE]

\* C16 witness: a lookup without nameservers is about to return after the OS
\* resolver failed
C16_Witness ==
    \E id \in DOMAIN lookups :
        lookups[id].pc = "ret" /\ lookups[id].nsCnt = 0 /\ lookups[id].failed

\* C18: the wait the loop schedules after a refresh is the 10-second retry
\* interval when the resolution failed, and the TTL the lookup returned (at
\* least 60 seconds) when it succeeded; and the next refresh starts only when
\* the scheduled wait has elapsed.
C18_WaitIsRetryOrTtl ==
    [][\A id \in DOMAIN lookups :
          /\ (lookups[id].pc = "ret" /\ lookups'[id].pc = "idle")
             => /\ heap'[id].ttl = IF lookups[id].failed THEN 10 ELSE lookups[id].res.ttl
                /\ ~lookups[id].failed => lookups[id].res.ttl >= 60
          /\ heap[id].pc \in {"set6", "done"} => heap'[id].ttl = heap[id].ttl
          /\ (heap[id].pc = "timer" /\ heap'[id].pc = "select")
             => heap'[id].ttlAt - clock = heap[id].ttl
          /\ (heap[id].pc = "select" /\ heap'[id].pc = "reload")
             => clock >= heap[id].ttlAt]_vars

\* ------------------------------------------------------------------------
\* Properties of the registry lock (DumpSpec)
\* ------------------------------------------------------------------------

\* C19: Dump never deadlocks: there is no state in which DumpPrefix, holding
\* its read lock, waits for the read lock of GetIPs behind a goroutine that
\* waits in Lock() for DumpPrefix's read lock to be released.
C19_DumpNeverDeadlocks ==
    ~(dmp.dump.pc = "inner" /\ ~CanRLock /\ ~CanLock)

\* ------------------------------------------------------------------------
\* Properties of the address set (IpsSpec)
\* ------------------------------------------------------------------------

\* the results of the consecutive reads, and the list they read
RrLog == ipsRun.log
RrList == ipsRun.ips.ipList

\* C13: of an address set of n >= 1 addresses that is not replaced meanwhile,
\* consecutive (non-overlapping) round-robin reads return the addresses in
\* sequence order, cyclically: any n of them in a row return every address
\* exactly once, and the read after those n returns the first one's address.
C13_RoundRobinCycle ==
    LET n == Len(RrList) IN
    (n >= 1 /\ ipsRun.clean) =>
        /\ \A k \in DOMAIN RrLog : RrLog[k].idx \in 0..(n - 1) /\ RrLog[k].ip = RrList[RrLog[k].idx + 1]
        /\ \A k \in 1..(Len(RrLog) - 1) : RrLog[k + 1].idx = (RrLog[k].idx + 1) % n
        /\ \A k \in 1..(Len(RrLog) - n + 1) :
              {RrLog[j].ip : j \in k..(k + n - 1)} = Range(RrList)
        /\ \A k \in 1..(Len(RrLog) - n) : RrLog[k + n].ip = RrLog[k].ip

\* C13 witness: four consecutive reads of a list of three addresses
C13_Witness == ipsRun.clean /\ Len(RrList) = 3 /\ Len(RrLog) = 4

\* C14: in every interleaving of round-robin reads and replacements of the
\* list, a read returns "no address" with index 0 when the list it reads is
\* empty, and otherwise an index below the length of the list it reads
\* together with the element at that index.
C14_ReadInsideList ==
    \A r \in Readers :
        LET rd == ipsRun.readers[r] IN
        IF Len(rd.seen) = 0
        THEN rd.ip = NilIP /\ rd.idx = 0
        ELSE rd.idx \in 0..(Len(rd.seen) - 1) /\ rd.ip = rd.seen[rd.idx + 1]

\* C14 witness: a read of a list shorter than the one the cursor went through
\* before, while another read is between its unlock and its add
C14_Witness ==
    \E r \in Readers :
        /\ ipsRun.readers[r].pc = "add"
        /\ Adding # {r}
        /\ ipsRun.ips.ipIdx >= Len(ipsRun.readers[r].seen)

\* ------------------------------------------------------------------------
\* Properties of the dual query (DualSpec)
\* ------------------------------------------------------------------------

\* the smallest element of a non-empty set of uint32
Min(S) == CHOOSE x \in S : \A y \in S : ~Less(y, x)

\* the TTLs among t4 and t6 that were observed and are above the floor
AboveFloor(t4, t6) == {t \in {t4, t6} : t # MaxUint32 /\ Less(U32(defaultTtl), t)}

\* C5: the effective TTL of a successful dual query, for the minimum TTLs its
\* two sub-queries observed (main reading them once both are complete), is
\* the smaller of the observed TTLs above the 60-second floor, or 60 when none
\* is above the floor.
C5_TtlIsSmallestAboveFloor ==
    (dual.pc = "done" /\ ~dual.err /\ ~dual.raced)
    => dual.ttl = IF AboveFloor(dual.ttl4, dual.ttl6) = {}
                  THEN U32(defaultTtl)
                  ELSE Min(AboveFloor(dual.ttl4, dual.ttl6))

\* C6: the TTL a successful dual query returns is the one computed from the
\* minimum TTLs the two sub-queries finally recorded, never one computed from
\* the values read while a sub-query was still running.
C6_TtlFromFinalValues ==
    (dual.pc = "done" /\ ~dual.err)
    => dual.ttl = selectTtl(dual.ttl4, dual.ttl6)

====
